---- MODULE Spec2Model ----
(***************************************************************************)
(* PartyViz: the loader's rotation controller (index.js), the AudioManager *)
(* (audio-manager.js) and the start/stop/draw lifecycle of the animation   *)
(* classes, as state machines.                                             *)
(*                                                                         *)
(* Conventions                                                             *)
(*  - array indices are 0-based as in the source; loaded is a sequence and *)
(*    At(loaded, i) reads loaded[i].                                       *)
(*  - null / undefined object references are NoItem; a null handle         *)
(*    (frameId, rafId, rotationTimer) is 0, browser handles are >= 1.      *)
(*  - a browser handle is never handed out twice.  The model hands out the *)
(*    smallest handle that is neither pending nor still stored in a        *)
(*    variable, which is the same up to renaming of handles.               *)
(*  - JavaScript numbers that need not be integers are exact rationals     *)
(*    [n |-> numerator, d |-> denominator], d > 0.                         *)
(*  - ev records the operation that produced the current state (what was   *)
(*    called, on whom, with which arguments and result).                   *)
(***************************************************************************)
EXTENDS Integers, Sequences, FiniteSets, TLC

VARIABLES
    phase,                  \* position of init(): "boot", "loading", "failed", "running", "harness"
    manifest,               \* parsed animations.yml: the list of entries
    loaded,                 \* const loaded = await loadAnimations()
    currentIndex,           \* let currentIndex
    currentItem,            \* let currentItem (index of the item, NoItem = null)
    rotationTimer,          \* let rotationTimer (0 = null)
    paused,                 \* let paused
    timers,                 \* pending setTimeout callbacks: [id, delay]
    display,                \* item.view.style.display = 'block' per index
    windowCurrentAnimation, \* window.currentAnimation (index of the instance's item)
    frameId,                \* this.frameId of every instance
    lifecycle,              \* last lifecycle hook called on every instance
    fields,                 \* the other fields of every instance (<<>>: none is modelled)
    rafQueue,               \* pending requestAnimationFrame callbacks: [id, kind, who]
    rafId,                  \* AudioManager.rafId
    isTestMode,             \* AudioManager.isTestMode
    isLive,                 \* AudioManager.isLive
    audioCtx,               \* AudioManager.audioCtx: "none" (null), or "running", "suspended",
                            \* "suspending" / "resuming" (suspend() / resume() called, not settled)
    stream,                 \* AudioManager.stream (0 = null)
    source,                 \* AudioManager.source: [of, connected] (of = 0: null)
    openStreams,            \* MediaStreams whose tracks have not been stopped
    pipelines,              \* how often lines 45-54 have built context, analyser and dataArray
    calls,                  \* enableLiveInput calls waiting in await getUserMedia
    checked,                \* testModeCheckbox.checked
    selectShown,            \* the device dropdown is shown, the mic button hidden
    options,                \* number of option elements in the device dropdown
    ev                      \* the operation that produced this state

vars == <<phase, manifest, loaded, currentIndex, currentItem, rotationTimer, paused,
          timers, display, windowCurrentAnimation, frameId, lifecycle, fields, rafQueue,
          rafId, isTestMode, isLive, audioCtx, stream, source, openStreams, pipelines, calls,
          checked,
          selectShown, options, ev>>

rotationVars == <<currentIndex, currentItem, rotationTimer, paused, timers, display,
                  windowCurrentAnimation>>
moduleVars == <<frameId, lifecycle, fields>>
audioVars == <<isTestMode, isLive, audioCtx, stream, source, openStreams, pipelines, calls,
               checked, selectShown, options>>

---------------------------------------------------------------------------
(* Bounds of the model *)

MaxModules == 3
MaxRaf == 4
MaxTimers == 3
MaxStreams == 3
MaxCalls == 2
MaxLen == 3
MaxListeners == 3
MaxRingFrames == 2
MaxNamesSetting == 2
MaxDevices == 2
RandomScale == 1000

(* Program constants *)

DEFAULT_DURATION == 8
DefaultMaxNames == 3
BootFrames == 120
HighExplodes == 70
NoItem == -1
Undefined == -1

---------------------------------------------------------------------------
(* Values *)

Rat(n, d) == [n |-> n, d |-> d]

Event(op, who, prev, shown, arg, res) ==
    [op |-> op, who |-> who, prev |-> prev, shown |-> shown, arg |-> arg, res |-> res]

At(seq, index) == seq[index + 1]

ValidIndex(seq, index) == index >= 0 /\ index < Len(seq)

Indices(seq) == 0 .. (Len(seq) - 1)

(* JavaScript's % : the remainder takes the sign of the dividend. *)
JsRem(a, n) == IF a >= 0 THEN a % n ELSE 0 - ((0 - a) % n)

---------------------------------------------------------------------------
(* Manifest and loadAnimations *)

ManifestEntries ==
    { [canvas |-> TRUE,  cls |-> "TemplateAnimation",  duration |-> 5],
      [canvas |-> TRUE,  cls |-> "TankDriveAnimation", duration |-> 0],
      [canvas |-> FALSE, cls |-> "TemplateAnimation",  duration |-> 3],
      [canvas |-> TRUE,  cls |-> "",                   duration |-> 0] }

Manifests == UNION { [1 .. n -> ManifestEntries] : n \in 0 .. MaxModules }

(* One iteration of the for loop of loadAnimations: the item pushed for an *)
(* entry.  instance = "" is instance: null.                                *)
LoadEntry(anim) ==
    IF ~anim.canvas THEN [instance |-> "", config |-> anim]
    ELSE IF anim.cls = "" THEN [instance |-> "", config |-> anim]
    ELSE [instance |-> anim.cls, config |-> anim]

loadAnimations(list) == [k \in 1 .. Len(list) |-> LoadEntry(list[k])]

---------------------------------------------------------------------------
(* Browser scheduling: requestAnimationFrame / setTimeout *)

FreshRaf(q, held) ==
    LET free == { h \in 1 .. MaxRaf : h \notin ({ cb.id : cb \in q } \cup held) }
    IN  IF free = {} THEN 0 ELSE CHOOSE h \in free : \A g \in free : h <= g

cancelAnimationFrame(q, h) == { cb \in q : cb.id # h }

FreshTimer(ts, held) ==
    LET free == { h \in 1 .. MaxTimers : h \notin ({ t.id : t \in ts } \cup held) }
    IN  IF free = {} THEN 0 ELSE CHOOSE h \in free : \A g \in free : h <= g

clearTimeout(ts, h) == { t \in ts : t.id # h }

---------------------------------------------------------------------------
(* Animation classes.  ms = [fid, q, lc, fields, held]: the frameId of     *)
(* every instance, the pending frame callbacks, the last lifecycle hook,   *)
(* the other fields of every instance, and the handles stored outside the  *)
(* instances (AudioManager.rafId).                                         *)

NoFields == <<>>

OtherFrameIds(ms, i) == { ms.fid[j] : j \in DOMAIN ms.fid \ {i} }

(* this.frameId = requestAnimationFrame(this.draw) *)
RequestDraw(ms, i) ==
    LET h == FreshRaf(ms.q, ms.held \cup OtherFrameIds(ms, i))
    IN  [ms EXCEPT !.q = @ \cup {[id |-> h, kind |-> "draw", who |-> i]},
                   !.fid[i] = h]

(* animations/template: drawFrame requests the next frame on both paths. *)
TemplateAnimation_drawFrame(ms, i) == RequestDraw(ms, i)

TemplateAnimation_start_NoGuard(ms, i) == RequestDraw(ms, i)

TemplateAnimation_start(ms, i) ==
    IF ms.fid[i] = 0 THEN RequestDraw(ms, i) ELSE ms

TemplateAnimation_stop_KeepsHandle(ms, i) ==
    IF ms.fid[i] # 0
    THEN [ms EXCEPT !.q = cancelAnimationFrame(@, ms.fid[i])]
    ELSE ms

TemplateAnimation_stop(ms, i) ==
    IF ms.fid[i] # 0
    THEN [ms EXCEPT !.q = cancelAnimationFrame(@, ms.fid[i]), !.fid[i] = 0]
    ELSE ms

(* animations/tank-drive *)
TankDriveAnimation_draw_NoStore(ms, i) ==
    LET h == FreshRaf(ms.q, ms.held \cup { ms.fid[j] : j \in DOMAIN ms.fid })
    IN  [ms EXCEPT !.q = @ \cup {[id |-> h, kind |-> "draw", who |-> i]}]

TankDriveAnimation_draw(ms, i) == RequestDraw(ms, i)

TankDriveAnimation_start(ms, i) ==
    IF ms.fid[i] = 0 THEN RequestDraw(ms, i) ELSE ms

TankDriveAnimation_stop(ms, i) ==
    IF ms.fid[i] # 0
    THEN [ms EXCEPT !.q = cancelAnimationFrame(@, ms.fid[i]), !.fid[i] = 0]
    ELSE ms

(* the first TemplateAnimation: start() calls drawFrame() directly. *)
LegacyTemplate_drawFrame(ms, i) == RequestDraw(ms, i)

LegacyTemplate_start(ms, i) ==
    IF ms.fid[i] = 0 THEN LegacyTemplate_drawFrame(ms, i) ELSE ms

LegacyTemplate_stop(ms, i) ==
    IF ms.fid[i] # 0
    THEN [ms EXCEPT !.q = cancelAnimationFrame(@, ms.fid[i]), !.fid[i] = 0]
    ELSE ms

(* AsteroidsAnimation.  initialized is false when the constructor found    *)
(* the canvas without a size and deferred _initAsteroids; the frames that  *)
(* deferral requests are not drawFrame and do not touch frameId.  start()  *)
(* is called on a canvas that has been laid out.                           *)
AsteroidsAnimation_new(initialized) == [initialized |-> initialized]

(* drawFrame requests the next frame on both paths. *)
AsteroidsAnimation_drawFrame(ms, i) == RequestDraw(ms, i)

AsteroidsAnimation_start(ms, i) ==
    IF ms.fid[i] = 0
    THEN RequestDraw([ms EXCEPT !.fields[i].initialized = TRUE], i)
    ELSE ms

AsteroidsAnimation_stop(ms, i) ==
    IF ms.fid[i] # 0
    THEN [ms EXCEPT !.q = cancelAnimationFrame(@, ms.fid[i]), !.fid[i] = 0]
    ELSE ms

(* animations/wireframe-planet and animations/pachinko, the WebGL classes.  *)
(* webgl is what the browser offers the instance: "ok", "none"             *)
(* (checkWebGLSupport() returns false) or "throws" (WebGL is there, but    *)
(* new THREE.WebGLRenderer throws for this canvas).  renderer is           *)
(* this.renderer !== null; listeners counts the 'mousemove' listeners the  *)
(* instance has added to its canvas and not removed.                       *)
WebGLAnimation_new(webgl) ==
    [webgl |-> webgl, webglSupported |-> webgl # "none", renderer |-> FALSE,
     listeners |-> 0]

(* setupMouseInteraction: canvas.addEventListener('mousemove', <a new arrow function>) *)
setupMouseInteraction(ms, i) == [ms EXCEPT !.fields[i].listeners = @ + 1]

(* init(): returns early without WebGL; the catch block keeps whatever the *)
(* try block had assigned before new THREE.WebGLRenderer threw.            *)
WireframePlanetAnimation_init(ms, i) ==
    IF ~ms.fields[i].webglSupported THEN ms
    ELSE IF ms.fields[i].webgl = "throws" THEN ms
    ELSE setupMouseInteraction([ms EXCEPT !.fields[i].renderer = TRUE], i)

WireframePlanetAnimation_start(ms, i) ==
    LET m1 == WireframePlanetAnimation_init(ms, i)
    IN  IF m1.fid[i] = 0 /\ m1.fields[i].webglSupported THEN RequestDraw(m1, i) ELSE m1

(* stop() disposes the renderer and empties the scene; this.renderer keeps *)
(* its reference and the canvas keeps its listeners.                       *)
WireframePlanetAnimation_stop(ms, i) ==
    IF ms.fid[i] # 0
    THEN [ms EXCEPT !.q = cancelAnimationFrame(@, ms.fid[i]), !.fid[i] = 0]
    ELSE ms

WireframePlanetAnimation_draw(ms, i) ==
    IF ~ms.fields[i].webglSupported \/ ~ms.fields[i].renderer THEN ms
    ELSE RequestDraw(ms, i)

PachinkoAnimation_init(ms, i) ==
    IF ~ms.fields[i].webglSupported THEN ms
    ELSE IF ms.fields[i].webgl = "throws" THEN ms
    ELSE [ms EXCEPT !.fields[i].renderer = TRUE]

(* animateRing: one step of the ring; left is the number of steps after    *)
(* which opacity > 0 is false.  The handle of the request is not stored.   *)
animateRing(ms, i, left) ==
    IF left > 0
    THEN LET h == FreshRaf(ms.q, ms.held \cup { ms.fid[j] : j \in DOMAIN ms.fid })
         IN  [ms EXCEPT !.q = @ \cup {[id |-> h, kind |-> "ring", who |-> i, left |-> left]}]
    ELSE ms

(* createImpactWave ends with a direct call of animateRing(). *)
createImpactWave(ms, i) == animateRing(ms, i, MaxRingFrames)

PachinkoAnimation_start(ms, i) ==
    LET m1 == PachinkoAnimation_init(ms, i)
    IN  IF m1.fid[i] = 0 /\ m1.fields[i].webglSupported THEN RequestDraw(m1, i) ELSE m1

PachinkoAnimation_stop(ms, i) ==
    IF ms.fid[i] # 0
    THEN [ms EXCEPT !.q = cancelAnimationFrame(@, ms.fid[i]), !.fid[i] = 0]
    ELSE ms

(* draw: wave = this frame a ball was spawned or hit a peg (spawnBall,     *)
(* updateBalls), which calls createImpactWave.                             *)
PachinkoAnimation_draw(ms, i, wave) ==
    IF ~ms.fields[i].webglSupported \/ ~ms.fields[i].renderer THEN ms
    ELSE RequestDraw(IF wave THEN createImpactWave(ms, i) ELSE ms, i)

(* animations/synthwave-run.  Of an entity the model keeps which branch of *)
(* the loop of drawGame it is in: "alive" (z has not dropped below 50),    *)
(* "explode" or "fade" (dead, its effect is playing).  z, fadeElapsed and  *)
(* the particles' life change by amounts that depend on mid and on         *)
(* Math.random(); the frame in which an entity changes branch is an input. *)
Truthy(v) == v # Undefined /\ v # 0

(* a || b *)
Or(a, b) == IF Truthy(a) THEN a ELSE b

(* config.settings && config.settings.maxNames; settings.present is FALSE  *)
(* for an entry without a settings block.                                  *)
SettingsMaxNames(settings) == IF settings.present THEN settings.maxNames ELSE Undefined

(* constructor: config is the manifest entry; maxNames and settings are    *)
(* Undefined when the entry does not have them.                            *)
SynthwaveRunAnimation_new(config) ==
    [state |-> "BOOT", bootTimer |-> 0, entities |-> <<>>, high |-> 0,
     maxNames |-> Or(Or(config.maxNames, SettingsMaxNames(config.settings)),
                     DefaultMaxNames)]

SynthwaveRunAnimation_start(ms, i) ==
    IF ms.fid[i] = 0 THEN RequestDraw(ms, i) ELSE ms

SynthwaveRunAnimation_stop(ms, i) ==
    IF ms.fid[i] # 0
    THEN [ms EXCEPT !.q = cancelAnimationFrame(@, ms.fid[i]), !.fid[i] = 0]
    ELSE ms

SynthwaveRunAnimation_updateFrequencies(ms, i, bands) ==
    [ms EXCEPT !.fields[i].high = bands[3]]

SynthwaveRunAnimation_drawLoading(f) ==
    LET t == f.bootTimer + 1
    IN  [f EXCEPT !.bootTimer = t, !.state = IF t > BootFrames THEN "RUN" ELSE @]

(* the spawn of drawGame.  entities.push(...) followed by the sort on z,   *)
(* far ones first: the new entity, at z = 2000, is the farthest.           *)
Spawn_NoLimit(f, roll) ==
    IF roll THEN <<"alive">> \o f.entities ELSE f.entities

Spawn(f, roll) ==
    IF Len(f.entities) < f.maxNames /\ roll THEN <<"alive">> \o f.entities
    ELSE f.entities

(* one iteration of the loop over the entities: <<>> when the entity is    *)
(* spliced out.  step: z drops below 50 in this frame (alive), the effect  *)
(* ends in this frame (dead); roll: Math.random() < 0.4.  An entity that   *)
(* dies keeps its place for this frame: its effect lasts 30 frames or more.*)
EntityStep(e, high, step, roll) ==
    IF e = "alive"
    THEN IF ~step THEN <<e>>
         ELSE IF high > HighExplodes \/ roll THEN <<"explode">> ELSE <<"fade">>
    ELSE IF step THEN <<>> ELSE <<e>>

(* steps, rolls: the positions at which step, roll are true *)
RECURSIVE EntityLoop(_, _, _, _)
EntityLoop(es, high, steps, rolls) ==
    IF es = <<>> THEN <<>>
    ELSE EntityLoop(SubSeq(es, 1, Len(es) - 1), high, steps, rolls)
         \o EntityStep(es[Len(es)], high, Len(es) \in steps, Len(es) \in rolls)

SynthwaveRunAnimation_drawGame(f, rnd) ==
    [f EXCEPT !.entities = EntityLoop(Spawn(f, rnd.spawn), f.high, rnd.steps, rnd.rolls)]

SynthwaveRunAnimation_draw(ms, i, rnd) ==
    LET f == ms.fields[i]
        g == IF f.state = "BOOT" THEN SynthwaveRunAnimation_drawLoading(f)
             ELSE SynthwaveRunAnimation_drawGame(f, rnd)
    IN  RequestDraw([ms EXCEPT !.fields[i] = g], i)

(* Dispatch on the class of the instance. *)
InstanceStart(ld, ms, i) ==
    LET cls == At(ld, i).instance
        m1 == CASE cls = "TemplateAnimation"        -> TemplateAnimation_start(ms, i)
                [] cls = "TankDriveAnimation"       -> TankDriveAnimation_start(ms, i)
                [] cls = "WireframePlanetAnimation" -> WireframePlanetAnimation_start(ms, i)
                [] cls = "PachinkoAnimation"        -> PachinkoAnimation_start(ms, i)
                [] cls = "SynthwaveRunAnimation"    -> SynthwaveRunAnimation_start(ms, i)
                [] cls = "AsteroidsAnimation"       -> AsteroidsAnimation_start(ms, i)
                [] OTHER                            -> LegacyTemplate_start(ms, i)
    IN  [m1 EXCEPT !.lc[i] = "start"]

InstanceStop(ld, ms, i) ==
    LET cls == At(ld, i).instance
        m1 == CASE cls = "TemplateAnimation"        -> TemplateAnimation_stop(ms, i)
                [] cls = "TankDriveAnimation"       -> TankDriveAnimation_stop(ms, i)
                [] cls = "WireframePlanetAnimation" -> WireframePlanetAnimation_stop(ms, i)
                [] cls = "PachinkoAnimation"        -> PachinkoAnimation_stop(ms, i)
                [] cls = "SynthwaveRunAnimation"    -> SynthwaveRunAnimation_stop(ms, i)
                [] cls = "AsteroidsAnimation"       -> AsteroidsAnimation_stop(ms, i)
                [] OTHER                            -> LegacyTemplate_stop(ms, i)
    IN  [m1 EXCEPT !.lc[i] = "stop"]

(* The inputs of one frame: what Math.random() and the game state decide.  *)
DrawInputs(ld, ms, i) ==
    LET cls == At(ld, i).instance
    IN  CASE cls = "PachinkoAnimation" -> [wave : BOOLEAN]
          [] cls = "SynthwaveRunAnimation" ->
                 IF ms.fields[i].state = "BOOT"
                 THEN {[spawn |-> FALSE, steps |-> {}, rolls |-> {}]}
                 ELSE { [spawn |-> spawn, steps |-> steps, rolls |-> rolls] :
                          spawn \in BOOLEAN,
                          steps \in SUBSET (1 .. (Len(ms.fields[i].entities) + 1)),
                          rolls \in SUBSET (1 .. (Len(ms.fields[i].entities) + 1)) }
          [] OTHER -> {<<>>}

(* what ev keeps of a frame: the first roll of Math.random(), and the      *)
(* number of entities before the frame                                     *)
FirstRoll(rnd) ==
    IF "spawn" \in DOMAIN rnd THEN <<rnd.spawn>>
    ELSE IF "wave" \in DOMAIN rnd THEN <<rnd.wave>>
    ELSE <<>>

Population(f) == IF "entities" \in DOMAIN f THEN <<Len(f.entities)>> ELSE <<>>

InstanceDrawWith(ld, ms, i, rnd) ==
    LET cls == At(ld, i).instance
    IN  CASE cls = "TemplateAnimation"        -> TemplateAnimation_drawFrame(ms, i)
          [] cls = "TankDriveAnimation"       -> TankDriveAnimation_draw(ms, i)
          [] cls = "WireframePlanetAnimation" -> WireframePlanetAnimation_draw(ms, i)
          [] cls = "PachinkoAnimation"        -> PachinkoAnimation_draw(ms, i, rnd.wave)
          [] cls = "SynthwaveRunAnimation"    -> SynthwaveRunAnimation_draw(ms, i, rnd)
          [] cls = "AsteroidsAnimation"       -> AsteroidsAnimation_drawFrame(ms, i)
          [] OTHER                            -> LegacyTemplate_drawFrame(ms, i)

InstanceDraw(ld, ms, i) ==
    LET cls == At(ld, i).instance
    IN  CASE cls = "TemplateAnimation"  -> TemplateAnimation_drawFrame(ms, i)
          [] cls = "TankDriveAnimation" -> TankDriveAnimation_draw(ms, i)
          [] cls = "AsteroidsAnimation" -> AsteroidsAnimation_drawFrame(ms, i)
          [] OTHER                      -> LegacyTemplate_drawFrame(ms, i)

HasInstance(ld, i) == ValidIndex(ld, i) /\ At(ld, i).instance # ""

(* item.instance && typeof item.instance.<hook> === 'function'.  A         *)
(* PlainAnimation is an instance that defines none of start, stop and      *)
(* updateFrequencies.                                                      *)
HasHook_NoTypeof(ld, i, hook) == HasInstance(ld, i)

HasHook(ld, i, hook) == HasInstance(ld, i) /\ At(ld, i).instance # "PlainAnimation"

PendingDraws(q, i) == { cb \in q : cb.kind = "draw" /\ cb.who = i }

Running(i) == i \in DOMAIN frameId /\ frameId[i] # 0

RunningSet == { i \in DOMAIN frameId : Running(i) }

---------------------------------------------------------------------------
(* The rotation controller.  st = [ms, display, wca, item, index].          *)

hideAll(ld) == [i \in Indices(ld) |-> FALSE]

showIndex_KeepsViews(ld, st, index) ==
    LET ms1 == IF st.item # NoItem /\ HasHook(ld, st.item, "stop")
               THEN InstanceStop(ld, st.ms, st.item)
               ELSE st.ms
    IN  IF ~ValidIndex(ld, index)
        THEN [st EXCEPT !.ms = ms1]
        ELSE [ms      |-> IF HasHook(ld, index, "start")
                          THEN InstanceStart(ld, ms1, index)
                          ELSE ms1,
              display |-> [st.display EXCEPT ![index] = TRUE],
              wca     |-> IF HasInstance(ld, index) THEN index ELSE NoItem,
              item    |-> index,
              index   |-> index]

showIndex(ld, st, index) ==
    LET ms1 == IF st.item # NoItem /\ HasHook(ld, st.item, "stop")
               THEN InstanceStop(ld, st.ms, st.item)
               ELSE st.ms
        hidden == hideAll(ld)
    IN  IF ~ValidIndex(ld, index)
        THEN [st EXCEPT !.ms = ms1, !.display = hidden]
        ELSE [ms      |-> IF HasHook(ld, index, "start")
                          THEN InstanceStart(ld, ms1, index)
                          ELSE ms1,
              display |-> [hidden EXCEPT ![index] = TRUE],
              wca     |-> IF HasInstance(ld, index) THEN index ELSE NoItem,
              item    |-> index,
              index   |-> index]

Duration_NoDefault(ld, index) ==
    IF ValidIndex(ld, index) THEN At(ld, index).config.duration ELSE DEFAULT_DURATION

Duration(ld, index) ==
    IF ValidIndex(ld, index) /\ At(ld, index).config.duration # 0
    THEN At(ld, index).config.duration
    ELSE DEFAULT_DURATION

NextIndex_NoWrap(cur, step, n) == JsRem(cur + step, n)

NextIndex(cur, step, n) == JsRem(cur + step + n, n)

(* rotateNext, lines 303-307: the timer part.  tm = [timers, rt, paused]. *)
RotateSchedule_NoClear(tm, duration) ==
    IF ~tm.paused
    THEN LET h == FreshTimer(tm.timers, {tm.rt})
         IN  [tm EXCEPT !.timers = @ \cup {[id |-> h, delay |-> duration]},
                        !.rt = h]
    ELSE tm

RotateSchedule(tm, duration) ==
    LET cleared == IF tm.rt # 0 THEN clearTimeout(tm.timers, tm.rt) ELSE tm.timers
    IN  IF ~tm.paused
        THEN LET h == FreshTimer(cleared, {})
             IN  [tm EXCEPT !.timers = cleared \cup {[id |-> h, delay |-> duration]},
                            !.rt = h]
        ELSE [tm EXCEPT !.timers = cleared]

rotateNext_NoTimer(ld, st, tm, step) ==
    LET next == NextIndex(st.index, step, Len(ld))
    IN  [st |-> showIndex(ld, st, next),
         tm |-> [tm EXCEPT !.timers = IF tm.rt # 0 THEN clearTimeout(@, tm.rt) ELSE @]]

rotateNext(ld, st, tm, step) ==
    LET next == NextIndex(st.index, step, Len(ld))
    IN  [st |-> showIndex(ld, st, next),
         tm |-> RotateSchedule(tm, Duration(ld, next))]

(* pause button click handler, lines 326-345.  tm = [timers, rt, paused]. *)
PauseBranch_NoClear(tm) == [tm EXCEPT !.rt = 0, !.paused = TRUE]

PauseBranch(tm) ==
    [tm EXCEPT !.timers = clearTimeout(@, tm.rt), !.rt = 0, !.paused = TRUE]

ResumeBranch(ld, index, tm) ==
    LET nextIndex == (index + 1) % Len(ld)
        duration == Duration(ld, nextIndex)
        cleared == IF tm.rt # 0 THEN clearTimeout(tm.timers, tm.rt) ELSE tm.timers
        h == FreshTimer(cleared, {})
    IN  [timers |-> cleared \cup {[id |-> h, delay |-> duration]},
         rt     |-> h,
         paused |-> FALSE]

---------------------------------------------------------------------------
(* AudioManager: band extractor and frame normaliser *)

fftSize == 2048
frequencyBinCount == fftSize \div 2
ByteMax == 255
FullScale == 100
BoostNum == 12
BoostDen == 10

bassRange == <<0, 10>>
midRange == <<11, 100>>
highRange == <<101, 500>>

Defined(array, i) == i \in DOMAIN array /\ array[i] # Undefined

(* The for loop of getAverageVolume over i = lo .. hi - 1: the values and  *)
(* count it accumulates.  values and count are sums of integers, so the    *)
(* range is summed by halves; the totals are those of the loop.            *)
RECURSIVE Accumulate(_, _, _)
Accumulate(array, lo, hi) ==
    IF lo >= hi THEN [values |-> 0, count |-> 0]
    ELSE IF hi = lo + 1
    THEN IF Defined(array, lo)
         THEN [values |-> array[lo], count |-> 1]
         ELSE [values |-> 0, count |-> 0]
    ELSE LET half == lo + ((hi - lo) \div 2)
             a == Accumulate(array, lo, half)
             b == Accumulate(array, half, hi)
         IN  [values |-> a.values + b.values, count |-> a.count + b.count]

getAverageVolume_Inclusive(array, start, end) ==
    LET acc == Accumulate(array, start, end + 1)
    IN  IF acc.count = 0 THEN Rat(0, 1) ELSE Rat(acc.values, acc.count)

getAverageVolume(array, start, end) ==
    LET acc == Accumulate(array, start, end)
    IN  IF acc.count = 0 THEN Rat(0, 1) ELSE Rat(acc.values, acc.count)

(* (avg / 255) * 100 and (avg / 255) * 100 * 1.2 *)
Scale(avg) == Rat(avg.n * FullScale, avg.d * ByteMax)

Boost(x) == Rat(x.n * BoostNum, x.d * BoostDen)

(* Math.min(100, Math.max(0, x)) *)
MathMax0(x) == IF x.n < 0 THEN Rat(0, 1) ELSE x

MathMin100(x) == IF x.n > FullScale * x.d THEN Rat(FullScale, 1) ELSE x

Clamp_NoMin(x) == MathMax0(x)

Clamp(x) == MathMin100(MathMax0(x))

MathFloor(x) == Rat(x.n \div x.d, 1)

IsInteger(x) == x.n % x.d = 0

RatLeq(x, k) == x.n <= k * x.d

RatGeq(x, k) == x.n >= k * x.d

(* What analyser.getByteFrequencyData can leave in dataArray. *)
AnalyserFrames ==
    { [i \in 0 .. (frequencyBinCount - 1) |-> 0],
      [i \in 0 .. (frequencyBinCount - 1) |-> ByteMax],
      [i \in 0 .. (frequencyBinCount - 1) |-> i % (ByteMax + 1)],
      [i \in 0 .. (frequencyBinCount - 1) |-> IF i < 11 THEN 128 ELSE 0] }

LiveBands(dataArray) ==
    LET bassAvg == getAverageVolume(dataArray, bassRange[1], bassRange[2])
        midAvg == getAverageVolume(dataArray, midRange[1], midRange[2])
        highAvg == getAverageVolume(dataArray, highRange[1], highRange[2])
    IN  <<Scale(bassAvg), Scale(midAvg), Boost(Scale(highAvg))>>

LiveTriples == { LiveBands(f) : f \in AnalyserFrames }

(* Math.random() is k / RandomScale for some 0 <= k < RandomScale. *)
SyntheticTriples ==
    { <<Rat(r1 * FullScale, RandomScale), Rat(r2 * FullScale, RandomScale),
        Rat(r3 * FullScale, RandomScale)>> : r1, r2, r3 \in {0, RandomScale - 1} }

(* The arguments of updateFrequencies for the bands of one tick. *)
Deliver(bands) ==
    <<MathFloor(Clamp(bands[1])), MathFloor(Clamp(bands[2])), MathFloor(Clamp(bands[3]))>>

(* audioCtx.state.  suspend() and resume() return promises: the state     *)
(* attribute changes when the request settles, not during the call.        *)
StateAttr(ctx) ==
    CASE ctx \in {"running", "suspending"} -> "running"
      [] ctx \in {"suspended", "resuming"} -> "suspended"
      [] OTHER                             -> ctx

suspend(ctx) == IF ctx = "running" THEN "suspending" ELSE ctx

resume(ctx) == IF ctx = "suspended" THEN "resuming" ELSE ctx

(* setTestMode, lines 22-25: the audio context afterwards. *)
setTestModeCtx(ctx, enabled) ==
    IF ctx = "none" THEN ctx
    ELSE IF enabled /\ StateAttr(ctx) = "running" THEN suspend(ctx)
    ELSE IF ~enabled /\ StateAttr(ctx) = "suspended" THEN resume(ctx)
    ELSE ctx

---------------------------------------------------------------------------
(* State as records, and back *)

CurMs == [fid |-> frameId, q |-> rafQueue, lc |-> lifecycle, fields |-> fields,
          held |-> {rafId} \ {0}]

CurSt == [ms |-> CurMs, display |-> display, wca |-> windowCurrentAnimation,
          item |-> currentItem, index |-> currentIndex]

CurTm == [timers |-> timers, rt |-> rotationTimer, paused |-> paused]

SetModules(ms) ==
    /\ frameId' = ms.fid
    /\ rafQueue' = ms.q
    /\ lifecycle' = ms.lc
    /\ fields' = ms.fields

SetRotation(st, tm) ==
    /\ SetModules(st.ms)
    /\ display' = st.display
    /\ windowCurrentAnimation' = st.wca
    /\ currentItem' = st.item
    /\ currentIndex' = st.index
    /\ timers' = tm.timers
    /\ rotationTimer' = tm.rt
    /\ paused' = tm.paused

RafFree == Cardinality({ cb.id : cb \in rafQueue }) < MaxRaf

TimerFree == Cardinality(timers) < MaxTimers

---------------------------------------------------------------------------
(* Initial state: the page before init() runs *)

InitFields ==
    /\ phase = "boot"
    /\ loaded = <<>>
    /\ currentIndex = 0
    /\ currentItem = NoItem
    /\ rotationTimer = 0
    /\ paused = FALSE
    /\ timers = {}
    /\ display = <<>>
    /\ windowCurrentAnimation = NoItem
    /\ frameId = <<>>
    /\ lifecycle = <<>>
    /\ fields = <<>>
    /\ rafQueue = {}
    /\ rafId = 0
    /\ isTestMode = TRUE
    /\ isLive = FALSE
    /\ audioCtx = "none"
    /\ stream = 0
    /\ source = [of |-> 0, connected |-> FALSE]
    /\ openStreams = {}
    /\ pipelines = 0
    /\ calls = <<>>
    /\ selectShown = FALSE
    /\ options = 0

InitPage ==
    /\ InitFields
    /\ checked \in BOOLEAN
    /\ ev = Event("init", NoItem, "none", FALSE, <<>>, <<>>)

Init ==
    /\ manifest \in Manifests
    /\ InitPage

---------------------------------------------------------------------------
(* The Distribution Loop: one invocation of loop() of startLoop.  q is the *)
(* frame queue without the callback that is running.                       *)

(* line 105: this.rafId = requestAnimationFrame(loop), the frame queue     *)
(* after the request has returned handle h.                                *)
LoopRequest_None(q, h) == q

LoopRequest(q, h) == q \cup {[id |-> h, kind |-> "loop", who |-> NoItem]}

(* lines 129-131: what the tick hands to window.currentAnimation; <<>> is  *)
(* no call.                                                                *)
LoopDelivery_NoGuard(bands) == Deliver(bands)

LoopDelivery(bands) ==
    IF HasHook(loaded, windowCurrentAnimation, "updateFrequencies")
    THEN Deliver(bands) ELSE <<>>

LoopBody_IgnoresIsLive(q) ==
    LET h == FreshRaf(q, { frameId[i] : i \in DOMAIN frameId })
    IN  /\ rafId' = h
        /\ rafQueue' = LoopRequest(q, h)
        /\ \E bands \in (IF isTestMode THEN SyntheticTriples ELSE LiveTriples) :
              ev' = Event("tick", windowCurrentAnimation,
                          IF isTestMode THEN "synthetic" ELSE "live", FALSE, <<>>,
                          LoopDelivery(bands))

LoopBody(q) ==
    LET h == FreshRaf(q, { frameId[i] : i \in DOMAIN frameId })
    IN  /\ rafId' = h
        /\ rafQueue' = LoopRequest(q, h)
        /\ \E bands \in (IF isTestMode \/ ~isLive THEN SyntheticTriples ELSE LiveTriples) :
              ev' = Event("tick", windowCurrentAnimation,
                          IF isTestMode \/ ~isLive THEN "synthetic" ELSE "live", FALSE, <<>>,
                          LoopDelivery(bands))

(* init(), lines 258-266: new AudioManager(), startLoop(), await loadAnimations() *)
Boot ==
    /\ phase = "boot"
    /\ phase' = "loading"
    /\ LoopBody(rafQueue)
    /\ UNCHANGED <<manifest, loaded, rotationVars, moduleVars, audioVars>>

Tick ==
    /\ phase # "boot"
    /\ \E cb \in rafQueue :
          /\ cb.kind = "loop"
          /\ LoopBody(rafQueue \ {cb})
    /\ UNCHANGED <<phase, manifest, loaded, rotationVars, moduleVars, audioVars>>

---------------------------------------------------------------------------
(* init(), lines 266-430, after loadAnimations has resolved *)

LoadDone ==
    /\ phase = "loading"
    /\ LET ld == loadAnimations(manifest)
       IN  /\ loaded' = ld
           /\ IF Len(ld) = 0
              THEN /\ phase' = "failed"
                   /\ ev' = Event("load", NoItem, "none", FALSE, <<>>, <<>>)
                   /\ UNCHANGED <<rotationVars, moduleVars, rafQueue, isTestMode>>
              ELSE LET ms0 == [fid |-> [i \in Indices(ld) |-> 0],
                               q |-> rafQueue,
                               lc |-> [i \in Indices(ld) |-> "none"],
                               fields |-> [i \in Indices(ld) |-> NoFields],
                               held |-> {rafId} \ {0}]
                       st0 == [ms |-> ms0, display |-> hideAll(ld), wca |-> NoItem,
                               item |-> NoItem, index |-> 0]
                       st1 == showIndex(ld, st0, 0)
                       firstDuration == Duration(ld, st1.item)
                       h == FreshTimer({}, {})
                   IN  /\ phase' = "running"
                       /\ isTestMode' = checked
                       /\ SetRotation(st1, [timers |-> {[id |-> h, delay |-> firstDuration]},
                                            rt |-> h, paused |-> FALSE])
                       /\ ev' = Event("load", 0, "none", TRUE, <<>>, <<>>)
    /\ UNCHANGED <<manifest, rafId, isLive, audioCtx, stream, source, openStreams, pipelines, calls,
                   checked, selectShown, options>>

(* the auto-advance timer fires: () => rotateNext(1) *)
TimerFire ==
    /\ phase = "running"
    /\ RafFree
    /\ \E t \in timers :
          LET r == rotateNext(loaded, CurSt, [CurTm EXCEPT !.timers = @ \ {t}], 1)
          IN  /\ SetRotation(r.st, r.tm)
              /\ ev' = Event("timer", NoItem, "none", TRUE, <<currentIndex, 1>>, <<>>)
    /\ UNCHANGED <<phase, manifest, loaded, rafId, audioVars>>

RotationState == IF paused THEN "paused" ELSE "auto"

ManualStep_StaysPaused(op, step) ==
    /\ phase = "running"
    /\ RafFree
    /\ TimerFree
    /\ LET r == rotateNext(loaded, CurSt, CurTm, step)
       IN  /\ SetRotation(r.st, r.tm)
           /\ ev' = Event(op, NoItem, RotationState, TRUE, <<currentIndex, step>>, <<>>)
    /\ UNCHANGED <<phase, manifest, loaded, rafId, audioVars>>

(* prev / next click handlers, lines 312-322: paused = false; rotateNext(step) *)
ManualStep(op, step) ==
    /\ phase = "running"
    /\ RafFree
    /\ TimerFree
    /\ LET r == rotateNext(loaded, CurSt, [CurTm EXCEPT !.paused = FALSE], step)
       IN  /\ SetRotation(r.st, r.tm)
           /\ ev' = Event(op, NoItem, RotationState, TRUE, <<currentIndex, step>>, <<>>)
    /\ UNCHANGED <<phase, manifest, loaded, rafId, audioVars>>

ClickPrev == ManualStep("prev", 0 - 1)

ClickNext == ManualStep("next", 1)

ClickPause_StopsModule ==
    /\ phase = "running"
    /\ TimerFree
    /\ LET tm == IF ~paused THEN PauseBranch(CurTm)
                 ELSE ResumeBranch(loaded, currentIndex, CurTm)
       IN  /\ timers' = tm.timers
           /\ rotationTimer' = tm.rt
           /\ paused' = tm.paused
    /\ ev' = Event(IF paused THEN "resume" ELSE "pause", NoItem, "none", FALSE,
                   <<currentIndex, 0>>, <<>>)
    /\ IF ~paused /\ HasInstance(loaded, currentItem)
       THEN SetModules(InstanceStop(loaded, CurMs, currentItem))
       ELSE UNCHANGED <<moduleVars, rafQueue>>
    /\ UNCHANGED <<phase, manifest, loaded, currentIndex, currentItem, display,
                   windowCurrentAnimation, rafId, audioVars>>

(* pause button click handler, lines 325-345 *)
ClickPause ==
    /\ phase = "running"
    /\ TimerFree
    /\ LET tm == IF ~paused THEN PauseBranch(CurTm)
                 ELSE ResumeBranch(loaded, currentIndex, CurTm)
       IN  /\ timers' = tm.timers
           /\ rotationTimer' = tm.rt
           /\ paused' = tm.paused
    /\ ev' = Event(IF paused THEN "resume" ELSE "pause", NoItem, "none", FALSE,
                   <<currentIndex, 0>>, <<>>)
    /\ UNCHANGED <<phase, manifest, loaded, currentIndex, currentItem, display,
                   windowCurrentAnimation, moduleVars, rafQueue, rafId, audioVars>>

(* window.rotateNext(step) called from the console *)

ConsoleRotateNext ==
    /\ phase = "running"
    /\ RafFree
    /\ TimerFree
    /\ \E step \in ((0 - (MaxModules + 2)) .. (MaxModules + 2)) \ {0} :
          LET r == rotateNext(loaded, CurSt, CurTm, step)
          IN  /\ SetRotation(r.st, r.tm)
              /\ ev' = Event("console", NoItem, "none", TRUE, <<currentIndex, step>>, <<>>)
    /\ UNCHANGED <<phase, manifest, loaded, rafId, audioVars>>

(* a frame callback of an animation instance runs *)
DrawFire ==
    /\ phase \in {"running", "harness"}
    /\ \E cb \in rafQueue :
          /\ cb.kind = "draw"
          /\ SetModules(InstanceDraw(loaded, [CurMs EXCEPT !.q = @ \ {cb}], cb.who))
          /\ ev' = Event("draw", cb.who, lifecycle[cb.who], FALSE, <<>>, <<>>)
    /\ UNCHANGED <<phase, manifest, loaded, rotationVars, rafId, audioVars>>

Next ==
    \/ Boot
    \/ LoadDone
    \/ Tick
    \/ TimerFire
    \/ ClickPrev
    \/ ClickNext
    \/ ClickPause
    \/ ConsoleRotateNext
    \/ DrawFire

Spec == Init /\ [][Next]_vars

(* Rotation left to itself: no click on prev / next / pause and no call of *)
(* window.rotateNext.                                                      *)
NextAuto ==
    \/ Boot
    \/ LoadDone
    \/ Tick
    \/ TimerFire
    \/ DrawFire

SpecAuto == Init /\ [][NextAuto]_vars

(* Auto-advance with the browser firing every timer that stays pending,    *)
(* over manifests of every length: all entries valid, or the second one    *)
(* without a canvas.                                                       *)
RoundManifests ==
    { [k \in 1 .. n |->
          [canvas |-> valid \/ k # 2,
           cls |-> IF k % 2 = 1 THEN "TemplateAnimation" ELSE "TankDriveAnimation",
           duration |-> IF k % 2 = 1 THEN 5 ELSE 0]] : n \in 1 .. MaxModules, valid \in BOOLEAN }

InitRound ==
    /\ manifest \in RoundManifests
    /\ InitPage

SpecRound == InitRound /\ [][NextAuto]_vars /\ WF_vars(TimerFire)

(* Rotation over modules some of which define no hooks. *)
HookEntries ==
    { [canvas |-> TRUE, cls |-> "TemplateAnimation", duration |-> 5],
      [canvas |-> TRUE, cls |-> "PlainAnimation",    duration |-> 3] }

InitHooks ==
    /\ manifest \in UNION { [1 .. n -> HookEntries] : n \in 1 .. MaxModules }
    /\ InitPage

NextHooks ==
    \/ Boot
    \/ LoadDone
    \/ Tick
    \/ TimerFire
    \/ ClickPrev
    \/ ClickNext
    \/ DrawFire

SpecHooks == InitHooks /\ [][NextHooks]_vars

---------------------------------------------------------------------------
(* Lifecycle hooks that throw.  Neither showIndex nor rotateNext nor loop  *)
(* has a try / catch, so an exception of a hook leaves the function at the *)
(* call and the statements after it do not run.  The throwing hook is      *)
(* taken to throw before it changes its instance.                          *)

Hooks == {"stop", "start"}

(* showIndex(index) in which the call of hook throws, if it is made.       *)
showIndexThrowing(ld, st, index, hook) ==
    IF hook = "stop" /\ st.item # NoItem /\ HasHook(ld, st.item, "stop")
    THEN [st |-> st, thrown |-> TRUE]
    ELSE IF hook = "start" /\ HasHook(ld, index, "start")
    THEN LET ms1 == IF st.item # NoItem /\ HasHook(ld, st.item, "stop")
                    THEN InstanceStop(ld, st.ms, st.item)
                    ELSE st.ms
         IN  [st |-> [st EXCEPT !.ms = ms1,
                                !.display = [hideAll(ld) EXCEPT ![index] = TRUE]],
              thrown |-> TRUE]
    ELSE [st |-> showIndex(ld, st, index), thrown |-> FALSE]

rotateNextThrowing(ld, st, tm, step, hook) ==
    LET next == NextIndex(st.index, step, Len(ld))
        shown == showIndexThrowing(ld, st, next, hook)
    IN  IF shown.thrown
        THEN [st |-> shown.st, tm |-> tm, thrown |-> TRUE, next |-> next]
        ELSE [st |-> shown.st, tm |-> RotateSchedule(tm, Duration(ld, next)),
              thrown |-> FALSE, next |-> next]

(* the timer callback () => rotateNext(1), a hook throwing *)
TimerFireThrows ==
    /\ phase = "running"
    /\ RafFree
    /\ \E t \in timers, hook \in Hooks :
          LET r == rotateNextThrowing(loaded, CurSt, [CurTm EXCEPT !.timers = @ \ {t}], 1, hook)
          IN  /\ r.thrown
              /\ SetRotation(r.st, r.tm)
              /\ ev' = Event("timer", r.next, hook, TRUE, <<currentIndex, 1>>, <<"uncaught">>)
    /\ UNCHANGED <<phase, manifest, loaded, rafId, audioVars>>

(* prev / next click handlers, a hook throwing *)
ClickThrows ==
    /\ phase = "running"
    /\ RafFree
    /\ TimerFree
    /\ \E step \in {0 - 1, 1}, hook \in Hooks :
          LET r == rotateNextThrowing(loaded, CurSt, [CurTm EXCEPT !.paused = FALSE], step, hook)
          IN  /\ r.thrown
              /\ SetRotation(r.st, r.tm)
              /\ ev' = Event(IF step = 1 THEN "next" ELSE "prev", r.next, hook, TRUE,
                             <<currentIndex, step>>, <<"uncaught">>)
    /\ UNCHANGED <<phase, manifest, loaded, rafId, audioVars>>

(* loop() in which updateFrequencies throws: line 105 has run, the call of *)
(* line 130 ends loop() with the exception.                                *)
TickThrows ==
    /\ phase = "running"
    /\ HasHook(loaded, windowCurrentAnimation, "updateFrequencies")
    /\ \E cb \in rafQueue :
          /\ cb.kind = "loop"
          /\ LET q == rafQueue \ {cb}
                 h == FreshRaf(q, { frameId[i] : i \in DOMAIN frameId })
             IN  /\ rafId' = h
                 /\ rafQueue' = LoopRequest(q, h)
          /\ ev' = Event("tick", windowCurrentAnimation,
                         IF isTestMode \/ ~isLive THEN "synthetic" ELSE "live", FALSE,
                         <<"updateFrequencies">>, <<"uncaught">>)
    /\ UNCHANGED <<phase, manifest, loaded, rotationVars, moduleVars, audioVars>>

InitFault ==
    /\ manifest = <<[canvas |-> TRUE, cls |-> "TemplateAnimation", duration |-> 5],
                    [canvas |-> TRUE, cls |-> "TankDriveAnimation", duration |-> 0]>>
    /\ InitPage

NextFault ==
    \/ Boot
    \/ LoadDone
    \/ Tick
    \/ TimerFire
    \/ ClickPrev
    \/ ClickNext
    \/ DrawFire
    \/ TimerFireThrows
    \/ ClickThrows
    \/ TickThrows

SpecFault == InitFault /\ [][NextFault]_vars

---------------------------------------------------------------------------
(* AudioManager: signal source switch.                                     *)
(* am = [ctx, stream, source, open, isLive, isTestMode]                    *)

CurAm == [ctx |-> audioCtx, stream |-> stream, source |-> source, open |-> openStreams,
          built |-> pipelines,
          isLive |-> isLive, isTestMode |-> isTestMode]

SetAudio(am) ==
    /\ audioCtx' = am.ctx
    /\ stream' = am.stream
    /\ source' = am.source
    /\ openStreams' = am.open
    /\ pipelines' = am.built
    /\ isLive' = am.isLive
    /\ isTestMode' = am.isTestMode

FreshStream(open, held) ==
    LET free == { h \in 1 .. MaxStreams : h \notin (open \cup held) }
    IN  IF free = {} THEN 0 ELSE CHOOSE h \in free : \A g \in free : h <= g

StreamFree == Cardinality(openStreams \cup ({stream} \ {0})) < MaxStreams

(* enableLiveInput, lines 43-70: up to await getUserMedia.  created is the *)
(* state a new AudioContext starts in.                                     *)
setupAudioContext_Always(am, created) ==
    [am EXCEPT !.ctx = created, !.built = @ + 1]

(* lines 45-54: if (!this.audioCtx) { new AudioContext(), createAnalyser(), new Uint8Array } *)
setupAudioContext(am, created) ==
    IF am.ctx = "none" THEN [am EXCEPT !.ctx = created, !.built = @ + 1] ELSE am

enableLiveInput_request_KeepsOldStream(am, created) ==
    [setupAudioContext(am, created) EXCEPT
               !.source = IF am.source.of # 0 THEN [@ EXCEPT !.connected = FALSE] ELSE @]

enableLiveInput_request(am, created) ==
    [setupAudioContext(am, created) EXCEPT
               !.open = IF am.stream # 0 THEN @ \ {am.stream} ELSE @,
               !.source = IF am.source.of # 0 THEN [@ EXCEPT !.connected = FALSE] ELSE @]

(* enableLiveInput, lines 70-82: getUserMedia resolved with a stream. *)
enableLiveInput_connect(am) ==
    LET s == FreshStream(am.open, {am.stream} \ {0})
    IN  [ctx        |-> IF StateAttr(am.ctx) = "suspended" THEN resume(am.ctx) ELSE am.ctx,
         stream     |-> s,
         source     |-> [of |-> s, connected |-> TRUE],
         open       |-> am.open \cup {s},
         built      |-> am.built,
         isLive     |-> TRUE,
         isTestMode |-> FALSE]

setTestMode(am, enabled) ==
    [am EXCEPT !.isTestMode = enabled, !.ctx = setTestModeCtx(am.ctx, enabled)]

(* testModeCheckbox 'change' *)
ToggleTestMode ==
    /\ phase = "running"
    /\ checked' = ~checked
    /\ SetAudio(setTestMode(CurAm, ~checked))
    /\ ev' = Event("testmode", NoItem, "none", FALSE, <<>>, <<>>)
    /\ UNCHANGED <<phase, manifest, loaded, rotationVars, moduleVars, rafQueue, rafId,
                   calls, selectShown, options>>

(* a click on btnEnableMic runs both of its click listeners up to their await *)
ClickMic ==
    /\ phase = "running"
    /\ ~selectShown
    /\ Len(calls) + 2 <= MaxCalls
    /\ \E created \in {"running", "suspended"} :
          SetAudio(enableLiveInput_request(enableLiveInput_request(CurAm, created), created))
    /\ calls' = calls \o <<"micA", "micB">>
    /\ ev' = Event("mic", NoItem, "none", FALSE, <<>>, <<>>)
    /\ UNCHANGED <<phase, manifest, loaded, rotationVars, moduleVars, rafQueue, rafId,
                   checked, selectShown, options>>

(* audioSourceSelect 'change' *)
SelectChange ==
    /\ phase = "running"
    /\ selectShown
    /\ Len(calls) < MaxCalls
    /\ SetAudio(enableLiveInput_request(CurAm, "running"))
    /\ calls' = Append(calls, "select")
    /\ ev' = Event("select", NoItem, "none", FALSE, <<>>, <<>>)
    /\ UNCHANGED <<phase, manifest, loaded, rotationVars, moduleVars, rafQueue, rafId,
                   checked, selectShown, options>>

(* part_000 lines 382-399: the dropdown is cleared, gets one option per    *)
(* device that getAudioDevices returned, and is shown if there is one.     *)
refreshDeviceList(sel, devices) ==
    [options |-> devices, shown |-> sel.shown \/ devices > 0]

(* part_000 lines 404-410: the second click listener of btnEnableMic after *)
(* its await; devices is what enumerateDevices has to report.              *)
micListener_Always(success, sel, devices) == refreshDeviceList(sel, devices)

micListener(success, sel, devices) ==
    IF success THEN refreshDeviceList(sel, devices) ELSE sel

RemoveAt(seq, k) == [j \in 1 .. (Len(seq) - 1) |-> IF j < k THEN seq[j] ELSE seq[j + 1]]

(* getUserMedia settles for one waiting call; the listener then runs on. *)
GetUserMediaResolved ==
    /\ phase = "running"
    /\ StreamFree
    /\ \E k \in 1 .. Len(calls) :
          /\ calls' = RemoveAt(calls, k)
          /\ LET am1 == enableLiveInput_connect(CurAm)
             IN  CASE calls[k] = "micA" ->
                        /\ SetAudio(setTestMode(am1, FALSE))
                        /\ UNCHANGED <<selectShown, options>>
                   [] calls[k] = "micB" ->
                        /\ SetAudio(am1)
                        /\ \E devices \in 0 .. MaxDevices :
                              LET sel == micListener(TRUE, [options |-> options, shown |-> selectShown], devices)
                              IN  options' = sel.options /\ selectShown' = sel.shown
                   [] OTHER ->
                        /\ SetAudio(am1)
                        /\ UNCHANGED <<selectShown, options>>
          /\ checked' = FALSE
          /\ ev' = Event("granted", NoItem, calls[k], FALSE, <<>>, <<TRUE>>)
    /\ UNCHANGED <<phase, manifest, loaded, rotationVars, moduleVars, rafQueue, rafId>>

GetUserMediaRejected ==
    /\ phase = "running"
    /\ \E k \in 1 .. Len(calls) :
          /\ calls' = RemoveAt(calls, k)
          /\ IF calls[k] = "micB"
             THEN \E devices \in 0 .. MaxDevices :
                     LET sel == micListener(FALSE, [options |-> options, shown |-> selectShown], devices)
                     IN  options' = sel.options /\ selectShown' = sel.shown
             ELSE UNCHANGED <<selectShown, options>>
          /\ ev' = Event("denied", NoItem, calls[k], FALSE, <<>>, <<FALSE>>)
    /\ UNCHANGED <<phase, manifest, loaded, rotationVars, moduleVars, rafQueue, rafId,
                   isTestMode, isLive, audioCtx, stream, source, openStreams, pipelines, checked>>

(* a pending suspend() or resume() of the audio context settles *)
CtxSettles ==
    /\ audioCtx \in {"suspending", "resuming"}
    /\ audioCtx' = (IF audioCtx = "suspending" THEN "suspended" ELSE "running")
    /\ ev' = Event("ctx", NoItem, audioCtx, FALSE, <<>>, <<>>)
    /\ UNCHANGED <<phase, manifest, loaded, rotationVars, moduleVars, rafQueue, rafId,
                   isTestMode, isLive, stream, source, openStreams, pipelines, calls, checked,
                   selectShown, options>>

InitAudio ==
    /\ manifest = <<[canvas |-> TRUE, cls |-> "TemplateAnimation", duration |-> 5]>>
    /\ InitPage

NextAudio ==
    \/ Boot
    \/ LoadDone
    \/ Tick
    \/ ToggleTestMode
    \/ ClickMic
    \/ SelectChange
    \/ GetUserMediaResolved
    \/ GetUserMediaRejected
    \/ CtxSettles

SpecAudio == InitAudio /\ [][NextAudio]_vars

---------------------------------------------------------------------------
(* The lifecycle contract of one instance of every class, driven by any    *)
(* sequence of start(), stop() and frame callbacks.                        *)

HarnessClasses ==
    <<"TemplateAnimation", "TankDriveAnimation", "LegacyTemplateAnimation",
      "AsteroidsAnimation">>

HarnessLoaded ==
    [k \in 1 .. Len(HarnessClasses) |->
        LoadEntry([canvas |-> TRUE, cls |-> HarnessClasses[k], duration |-> 0])]

HarnessInit(ld, fs) ==
    /\ phase = "harness"
    /\ manifest = <<>>
    /\ loaded = ld
    /\ currentIndex = 0
    /\ currentItem = NoItem
    /\ rotationTimer = 0
    /\ paused = FALSE
    /\ timers = {}
    /\ display = hideAll(ld)
    /\ windowCurrentAnimation = NoItem
    /\ frameId = [i \in Indices(ld) |-> 0]
    /\ lifecycle = [i \in Indices(ld) |-> "none"]
    /\ fields = fs
    /\ rafQueue = {}
    /\ rafId = 0
    /\ isTestMode = TRUE
    /\ isLive = FALSE
    /\ audioCtx = "none"
    /\ stream = 0
    /\ source = [of |-> 0, connected |-> FALSE]
    /\ openStreams = {}
    /\ pipelines = 0
    /\ calls = <<>>
    /\ checked = FALSE
    /\ selectShown = FALSE
    /\ options = 0
    /\ ev = Event("init", NoItem, "none", FALSE, <<>>, <<>>)

HandlesLeft(ms) == \A cb \in ms.q : cb.id # 0

ListenersFree(i) ==
    "listeners" \in DOMAIN fields[i] => fields[i].listeners < MaxListeners

InitModule ==
    \E initialized \in BOOLEAN :
       HarnessInit(HarnessLoaded,
                   [i \in Indices(HarnessLoaded) |->
                       IF At(HarnessLoaded, i).instance = "AsteroidsAnimation"
                       THEN AsteroidsAnimation_new(initialized) ELSE NoFields])

CallStart ==
    /\ phase = "harness"
    /\ RafFree
    /\ \E i \in Indices(loaded) :
          /\ ListenersFree(i)
          /\ HandlesLeft(InstanceStart(loaded, CurMs, i))
          /\ SetModules(InstanceStart(loaded, CurMs, i))
          /\ ev' = Event("start", i, lifecycle[i], FALSE, <<>>, <<>>)
    /\ UNCHANGED <<phase, manifest, loaded, rotationVars, rafId, audioVars>>

CallStop ==
    /\ phase = "harness"
    /\ \E i \in Indices(loaded) :
          /\ SetModules(InstanceStop(loaded, CurMs, i))
          /\ ev' = Event("stop", i, lifecycle[i], FALSE, <<>>, <<>>)
    /\ UNCHANGED <<phase, manifest, loaded, rotationVars, rafId, audioVars>>

NextModule ==
    \/ CallStart
    \/ CallStop
    \/ DrawFire

SpecModule == InitModule /\ [][NextModule]_vars

---------------------------------------------------------------------------
(* The same harness for the classes whose frames take inputs. *)

(* a frame callback of an instance runs, with any inputs *)
FrameFire ==
    /\ phase = "harness"
    /\ \E cb \in rafQueue :
          /\ cb.kind = "draw"
          /\ LET ms == [CurMs EXCEPT !.q = @ \ {cb}]
             IN  \E rnd \in DrawInputs(loaded, ms, cb.who) :
                    LET m1 == InstanceDrawWith(loaded, ms, cb.who, rnd)
                    IN  /\ HandlesLeft(m1)
                        /\ SetModules(m1)
                        /\ ev' = Event("draw", cb.who, lifecycle[cb.who], FALSE,
                                       FirstRoll(rnd), Population(fields[cb.who]))
    /\ UNCHANGED <<phase, manifest, loaded, rotationVars, rafId, audioVars>>

(* a frame callback of a ring of PachinkoAnimation runs *)
RingFire ==
    /\ phase = "harness"
    /\ \E cb \in rafQueue :
          /\ cb.kind = "ring"
          /\ SetModules(animateRing([CurMs EXCEPT !.q = @ \ {cb}], cb.who, cb.left - 1))
          /\ ev' = Event("ring", cb.who, lifecycle[cb.who], FALSE, <<>>, <<>>)
    /\ UNCHANGED <<phase, manifest, loaded, rotationVars, rafId, audioVars>>

(* instance.updateFrequencies(low, mid, high) *)
CallUpdateFrequencies ==
    /\ phase = "harness"
    /\ \E i \in Indices(loaded), level \in {0, HighExplodes, FullScale} :
          LET bands == <<level, level, level>> IN
          /\ At(loaded, i).instance = "SynthwaveRunAnimation"
          /\ SetModules(SynthwaveRunAnimation_updateFrequencies(CurMs, i, bands))
          /\ ev' = Event("updateFrequencies", i, lifecycle[i], FALSE, bands, <<>>)
    /\ UNCHANGED <<phase, manifest, loaded, rotationVars, rafId, audioVars>>

WebGLClasses == <<"WireframePlanetAnimation", "PachinkoAnimation">>

WebGLLoaded ==
    [k \in 1 .. Len(WebGLClasses) |->
        LoadEntry([canvas |-> TRUE, cls |-> WebGLClasses[k], duration |-> 0])]

InitWebGL ==
    \E webgl \in [Indices(WebGLLoaded) -> {"ok", "none", "throws"}] :
       HarnessInit(WebGLLoaded, [i \in Indices(WebGLLoaded) |-> WebGLAnimation_new(webgl[i])])

NextWebGL ==
    \/ CallStart
    \/ CallStop
    \/ FrameFire
    \/ RingFire

SpecWebGL == InitWebGL /\ [][NextWebGL]_vars

(* One SynthwaveRunAnimation, constructed from any manifest entry. *)

SynthEntries ==
    { [canvas |-> TRUE, cls |-> "SynthwaveRunAnimation", duration |-> 0, maxNames |-> top,
       settings |-> [present |-> present, maxNames |-> inner]] :
         top \in {Undefined, 1}, present \in BOOLEAN, inner \in ({Undefined} \cup (0 .. MaxNamesSetting)) }

InitSynth ==
    \E anim \in { e \in SynthEntries : e.settings.present \/ e.settings.maxNames = Undefined } :
       HarnessInit(<<LoadEntry(anim)>>, [i \in {0} |-> SynthwaveRunAnimation_new(anim)])

NextSynth ==
    \/ CallStart
    \/ CallStop
    \/ FrameFire
    \/ CallUpdateFrequencies

SpecSynth == InitSynth /\ [][NextSynth]_vars

---------------------------------------------------------------------------
(* getAverageVolume applied to any small array and any range *)

AvgArrays == UNION { [0 .. (n - 1) -> {Undefined, 0, 7, ByteMax}] : n \in 0 .. MaxLen }

AvgBounds == (0 - 1) .. (MaxLen + 1)

InitAvg ==
    /\ manifest = <<>>
    /\ InitFields
    /\ checked = FALSE
    /\ \E array \in AvgArrays, start \in AvgBounds, end \in AvgBounds :
          ev = Event("args", NoItem, "none", FALSE, <<array, start, end>>, <<>>)

CallGetAverageVolume ==
    /\ ev.op = "args"
    /\ ev' = Event("getAverageVolume", NoItem, "none", FALSE, ev.arg,
                   <<getAverageVolume(ev.arg[1], ev.arg[2], ev.arg[3])>>)
    /\ UNCHANGED <<phase, manifest, loaded, rotationVars, moduleVars, rafQueue, rafId,
                   audioVars>>

NextAvg == CallGetAverageVolume

SpecAvg == InitAvg /\ [][NextAvg]_vars

---------------------------------------------------------------------------
(* Properties *)

ManualOps == {"resume", "next", "prev", "console"}

RotateOps == {"timer", "next", "prev", "console"}

(* C1: once rotation has started, exactly one module instance is Running   *)
(* (started and not stopped), never zero and never more than one.          *)
C1_ExactlyOneRunning ==
    phase = "running" => Cardinality(RunningSet) = 1

(* C2: a tick calls updateFrequencies only on the module that is Running   *)
(* and is the rotation controller's current module; a Stopped module never *)
(* receives a BandSample.                                                  *)
C2_TickTargetsRunningModule ==
    (ev.op = "tick" /\ ev.who # NoItem) =>
        (Running(ev.who) /\ ev.who = currentItem /\ ev.who = currentIndex)

(* C3: at most one auto-advance timer is pending at any time, and it is    *)
(* the one whose handle rotationTimer holds.                               *)
C3_AtMostOneTimer ==
    /\ Cardinality(timers) <= 1
    /\ \A t \in timers : t.id = rotationTimer

C3_Witness ==
    /\ ev.op = "next"
    /\ ev.arg[1] # currentIndex
    /\ Cardinality(timers) = 1

(* C4: while rotation is paused, every step other than a resume or a       *)
(* manual navigation calls no showIndex, is no timer firing and leaves the *)
(* current module in place.                                                *)
C4_PauseCancelsAdvance ==
    [][(paused /\ ev'.op \notin ManualOps) =>
          (/\ ~ev'.shown
           /\ ev'.op # "timer"
           /\ timers = {}
           /\ UNCHANGED <<currentIndex, currentItem, windowCurrentAnimation>>)]_vars

C4_Witness ==
    /\ paused
    /\ ev.op = "tick"
    /\ timers = {}
    /\ Len(loaded) > 1

(* C5: after stop() of an instance has returned, its draw callback does    *)
(* not run until the next start(): stop() leaves frameId null and no draw  *)
(* callback pending, and every pending draw callback of an instance is the *)
(* one whose handle its frameId holds.                                     *)
C5_NoDrawAfterStop ==
    /\ ev.op = "draw" => ev.prev = "start"
    /\ ev.op = "stop" => (frameId[ev.who] = 0 /\ PendingDraws(rafQueue, ev.who) = {})
    /\ \A i \in DOMAIN frameId : \A cb \in PendingDraws(rafQueue, i) : cb.id = frameId[i]

C5_Witness ==
    /\ ev.op = "stop"
    /\ ev.prev = "start"
    /\ frameId[ev.who] = 0
    /\ \E j \in DOMAIN frameId : j # ev.who /\ PendingDraws(rafQueue, j) # {}

C7_StopIdempotent ==
    (ev.op = "stop" /\ ev.prev \in {"none", "stop"}) =>
        (frameId[ev.who] = 0 /\ PendingDraws(rafQueue, ev.who) = {})

C7_Witness ==
    /\ ev.op = "stop"
    /\ ev.prev = "stop"
    /\ frameId[ev.who] = 0

(* C8: the three arguments of updateFrequencies on a tick are all present  *)
(* and each is an integer between 0 and 100, in synthetic and live mode.   *)
C8_BandsInRange ==
    (ev.op = "tick" /\ ev.who # NoItem) =>
        /\ Len(ev.res) = 3
        /\ \A k \in 1 .. 3 :
              /\ IsInteger(ev.res[k])
              /\ RatGeq(ev.res[k], 0)
              /\ RatLeq(ev.res[k], FullScale)

C8_Witness ==
    /\ ev.op = "tick"
    /\ ev.who # NoItem
    /\ ev.prev = "live"
    /\ ev.res[3] = Rat(FullScale, 1)
    /\ ev.res[1] = Rat(FullScale, 1)

(* C9: getAverageVolume returns the arithmetic mean of the defined entries *)
(* at start .. end-1, and 0 when there is none; the result is never        *)
(* negative.                                                               *)
RECURSIVE SumOf(_, _)
SumOf(array, S) ==
    IF S = {} THEN 0
    ELSE LET i == CHOOSE j \in S : TRUE IN array[i] + SumOf(array, S \ {i})

DefinedIn(array, start, end) == { i \in start .. (end - 1) : Defined(array, i) }

C9_AverageIsMean ==
    ev.op = "getAverageVolume" =>
        LET array == ev.arg[1]
            S == DefinedIn(array, ev.arg[2], ev.arg[3])
            r == ev.res[1]
        IN  /\ r.d > 0
            /\ r.n >= 0
            /\ S = {} => r = Rat(0, 1)
            /\ S # {} => r.n * Cardinality(S) = SumOf(array, S) * r.d

C9_Witness ==
    /\ ev.op = "getAverageVolume"
    /\ ev.res[1].n > 0
    /\ \E i \in ev.arg[2] .. (ev.arg[3] - 1) :
          i \in DOMAIN ev.arg[1] /\ ev.arg[1][i] = Undefined
    /\ \E i \in ev.arg[2] .. (ev.arg[3] - 1) : i \notin DOMAIN ev.arg[1]

(* C10: rotateNext(1) from the last index makes index 0 current and from   *)
(* any other index the next one; rotateNext(-1) from index 0 makes the     *)
(* last index current and from any other index the previous one.           *)
C10_Wraparound ==
    (ev.op \in RotateOps /\ ev.arg[2] \in {1, 0 - 1}) =>
        LET from == ev.arg[1]
            n == Len(loaded)
        IN  /\ currentItem = currentIndex
            /\ ev.arg[2] = 1 => currentIndex = (IF from = n - 1 THEN 0 ELSE from + 1)
            /\ ev.arg[2] = 0 - 1 => currentIndex = (IF from = 0 THEN n - 1 ELSE from - 1)

C10_Witness ==
    /\ ev.op = "prev"
    /\ ev.arg[1] = 0
    /\ Len(loaded) = MaxModules
    /\ currentIndex = MaxModules - 1

(* The duration the manifest configures for module k, in seconds: its own  *)
(* duration, 8 when it has none.                                           *)
ConfiguredDuration(k) ==
    LET d == At(loaded, k).config.duration
    IN  IF d = 0 THEN DEFAULT_DURATION ELSE d

ArmedFor(k) ==
    /\ Cardinality(timers) = 1
    /\ \A t \in timers : t.id = rotationTimer /\ t.delay = ConfiguredDuration(k)

(* C11: starting rotation shows module 0 at once; with no manual           *)
(* interaction and no pause, the timer that ends module k's turn was armed *)
(* with k's own configured duration (8 seconds when none is configured),   *)
(* and when it fires module (k+1) mod N is shown and a timer of that       *)
(* module's duration is armed.                                             *)
C11_AutoAdvance ==
    [][/\ (ev'.op = "load" /\ phase' = "running") =>
             (/\ currentIndex' = 0
              /\ currentItem' = 0
              /\ display'[0])
       /\ ev'.op = "timer" =>
             (/\ \A t \in timers : t.delay = ConfiguredDuration(currentIndex)
              /\ currentIndex' = (currentIndex + 1) % Len(loaded)
              /\ currentItem' = currentIndex'
              /\ display'[currentIndex'])
       /\ phase' = "running" => ArmedFor(currentIndex)']_vars

C11_Witness ==
    /\ ev.op = "timer"
    /\ Len(loaded) = 3
    /\ ConfiguredDuration(0) = 5
    /\ ConfiguredDuration(1) = 8
    /\ ConfiguredDuration(2) = 3
    /\ ev.arg[1] = 2
    /\ currentIndex = 0
    /\ \A t \in timers : t.delay = 5

(* C12: resume leaves rotation Auto-advancing with exactly one timer       *)
(* pending, armed with the full duration of the module that is current     *)
(* when resume is pressed (8 seconds when none is configured).             *)
C12_ResumeUsesCurrentDuration ==
    ev.op = "resume" => (~paused /\ ArmedFor(currentIndex))

(* C13: after a click on next or prev, whether rotation was paused or not, *)
(* paused is false, the neighbouring module is shown and current, and      *)
(* exactly one timer is pending, armed with the duration of the module now *)
(* shown.                                                                  *)
C13_ManualNavigation ==
    ev.op \in {"next", "prev"} =>
        /\ ~paused
        /\ ev.shown
        /\ currentIndex = (ev.arg[1] + ev.arg[2] + Len(loaded)) % Len(loaded)
        /\ currentItem = currentIndex
        /\ \A i \in DOMAIN display : display[i] <=> (i = currentIndex)
        /\ ArmedFor(currentIndex)

C13_Witness ==
    /\ ev.op = "prev"
    /\ ev.prev = "paused"
    /\ ~paused
    /\ Len(loaded) > 1
    /\ ArmedFor(currentIndex)
    /\ ConfiguredDuration(currentIndex) # ConfiguredDuration(ev.arg[1])

LivePipeline == isLive /\ stream \in openStreams /\ source.of = stream /\ source.connected

SyntheticMode == isTestMode \/ ~isLive

(* C14: when enableLiveInput fails, the call returns false; once no other  *)
(* request is in flight the system is in synthetic mode, with no partial   *)
(* live state.  (If an overlapping call has succeeded meanwhile, its       *)
(* complete live pipeline may be in place.)                                *)
C14_FailureLeavesSynthetic ==
    ev.op = "denied" =>
        /\ ev.res = <<FALSE>>
        /\ calls = <<>> => (SyntheticMode \/ LivePipeline)

(* C15: every stream that was acquired and whose tracks have not been      *)
(* stopped is the current stream of the AudioManager, so at most one       *)
(* capture device handle is open at any time.                              *)
C15_OneOpenStream ==
    /\ openStreams \subseteq {stream}
    /\ Cardinality(openStreams) <= 1

(* C19: setTestMode called while a live pipeline exists leaves the stream  *)
(* open and the source connected; setTestMode(true) leaves the audio       *)
(* context suspended or being suspended, and setTestMode(false) leaves it  *)
(* running or being resumed, with ticks taking the live branch.            *)
C19_SuspendAndResume ==
    [][(ev'.op = "testmode" /\ LivePipeline) =>
          (/\ UNCHANGED <<stream, source, openStreams, isLive>>
           /\ isTestMode' => audioCtx' \in {"suspending", "suspended"}
           /\ ~isTestMode' => (audioCtx' \in {"resuming", "running"} /\ ~SyntheticMode'))]_vars

(* C20: while isLive is false every tick delivers synthetic samples, and   *)
(* isLive becomes true only when a getUserMedia request of enableLiveInput *)
(* resolves with a stream.                                                 *)
C20_SyntheticUntilGranted ==
    [][/\ (ev'.op = "tick" /\ ~isLive) => ev'.prev = "synthetic"
       /\ (~isLive /\ isLive') => (ev'.op = "granted" /\ ev'.res = <<TRUE>>)]_vars

C20_Witness ==
    /\ ev.op = "tick"
    /\ ev.prev = "synthetic"
    /\ ev.who # NoItem
    /\ ~isLive
    /\ ~isTestMode
    /\ calls = <<"micB">>

(* C16: when the stop() hook of the current module or the start() hook of  *)
(* the target module throws during showIndex(i), the exception does not    *)
(* leave the handler, and afterwards only module i's view is shown and     *)
(* module i is the current item, the current index and                     *)
(* window.currentAnimation.                                                *)
C16_HookExceptionContained ==
    (ev.op \in RotateOps /\ ev.prev \in Hooks) =>
        /\ ev.res # <<"uncaught">>
        /\ \A i \in DOMAIN display : display[i] <=> (i = ev.who)
        /\ currentItem = ev.who
        /\ currentIndex = ev.who
        /\ windowCurrentAnimation = ev.who

(* C17: when updateFrequencies throws on a tick, the exception does not    *)
(* leave loop(), and the next invocation of loop is pending.               *)
C17_TickExceptionSwallowed ==
    (ev.op = "tick" /\ ev.arg = <<"updateFrequencies">>) =>
        /\ ev.res # <<"uncaught">>
        /\ \E cb \in rafQueue : cb.kind = "loop" /\ cb.id = rafId

(* C18: when no entry of the manifest has both a canvas and an exported    *)
(* class, rotation never starts: showIndex is not called and no            *)
(* auto-advance timer is scheduled.                                        *)
NoValidModule == \A k \in DOMAIN manifest : ~manifest[k].canvas \/ manifest[k].cls = ""

C18_NoModuleNoRotation ==
    NoValidModule =>
        /\ phase # "running"
        /\ ~ev.shown
        /\ timers = {}
        /\ rotationTimer = 0
        /\ \A i \in DOMAIN display : ~display[i]

(* C21: a click on pause leaves the current index, the current item, the   *)
(* window.currentAnimation pointer, the views and every instance's frame   *)
(* chain unchanged; while paused the loop stays scheduled and every tick   *)
(* delivers three band values to the module window.currentAnimation names. *)
C21_PauseKeepsModuleRunning ==
    [][/\ ev'.op = "pause" =>
             (/\ paused'
              /\ UNCHANGED <<currentIndex, currentItem, windowCurrentAnimation, display,
                             frameId, lifecycle>>
              /\ \A i \in DOMAIN frameId : PendingDraws(rafQueue', i) = PendingDraws(rafQueue, i))
       /\ (paused /\ ev'.op = "tick") =>
             (/\ ev'.who = windowCurrentAnimation
              /\ windowCurrentAnimation # NoItem => Len(ev'.res) = 3
              /\ \E cb \in rafQueue' : cb.kind = "loop" /\ cb.id = rafId'
              /\ UNCHANGED <<currentIndex, currentItem, windowCurrentAnimation, frameId>>)]_vars

C21_Witness ==
    /\ paused
    /\ ev.op = "tick"
    /\ ev.who = currentItem
    /\ currentItem = currentIndex
    /\ Running(currentItem)
    /\ Len(ev.res) = 3
    /\ display[currentIndex]

AllInstances == \A i \in Indices(loaded) : HasInstance(loaded, i)

(* C25: rotateNext(step), for any integer step and any current index,      *)
(* makes index (current + step) mod N current, a value in 0 .. N-1, and    *)
(* the module of that index is Running afterwards (every loaded module     *)
(* having an instance).                                                    *)
C25_AnyStepWraps ==
    (ev.op \in RotateOps /\ AllInstances) =>
        /\ currentIndex = (ev.arg[1] + ev.arg[2]) % Len(loaded)
        /\ currentIndex \in Indices(loaded)
        /\ currentItem = currentIndex
        /\ Running(currentIndex)

(* C26: after every firing of the auto-advance timer, also one in which a  *)
(* hook throws, rotation is Auto-advancing with exactly one timer pending, *)
(* held by rotationTimer.                                                  *)
C26_TimerRearmed ==
    ev.op = "timer" =>
        /\ ~paused
        /\ Cardinality(timers) = 1
        /\ \A t \in timers : t.id = rotationTimer

(* C27: once rotation has started, no auto-advance timer is pending while  *)
(* paused is true, and exactly one is pending while paused is false.       *)
C27_FlagAndTimerAgree ==
    phase = "running" =>
        /\ paused => timers = {}
        /\ ~paused => Cardinality(timers) = 1

(* C28: a manifest entry without canvas element or without exported class  *)
(* is not part of the rotation: loaded holds the valid entries only and    *)
(* the current item always has an instance.                                *)
C28_InvalidEntrySkipped ==
    /\ \A i \in Indices(loaded) : At(loaded, i).config.canvas /\ At(loaded, i).config.cls # ""
    /\ currentItem # NoItem => HasInstance(loaded, currentItem)

(* C30: after showIndex(i) with a valid index i, currentIndex and the      *)
(* current item are i, window.currentAnimation is the instance of module i *)
(* (null when it has none), view i is visible and every other view hidden. *)
ShownTarget ==
    IF ev.op = "load" THEN 0
    ELSE JsRem(ev.arg[1] + ev.arg[2] + Len(loaded), Len(loaded))

C30_ShowIndexPostcondition ==
    (ev.shown /\ ev.res = <<>> /\ ShownTarget \in Indices(loaded)) =>
        /\ currentIndex = ShownTarget
        /\ currentItem = ShownTarget
        /\ windowCurrentAnimation =
              (IF At(loaded, ShownTarget).instance # "" THEN ShownTarget ELSE NoItem)
        /\ \A i \in DOMAIN display : display[i] <=> (i = ShownTarget)

C30_Witness ==
    /\ ev.op = "console"
    /\ ev.arg[2] = 2
    /\ Len(loaded) = 3
    /\ currentIndex = ShownTarget
    /\ currentIndex # ev.arg[1]
    /\ windowCurrentAnimation = currentIndex
    /\ display[currentIndex]

(* C29: a call of enableLiveInput made while a stream is current stops the *)
(* tracks of that stream and disconnects the source node before the new    *)
(* device is requested; when a request settles no stopped stream is open   *)
(* again: a granted request adds its own stream only and a denied one      *)
(* leaves the open streams as they are.                                    *)
C29_ReleaseBeforeAcquire ==
    [][/\ (ev'.op \in {"mic", "select"} /\ stream # 0) =>
             (/\ stream \notin openStreams'
              /\ ~source'.connected
              /\ stream' = stream
              /\ Len(calls') > Len(calls))
       /\ ev'.op = "granted" =>
             (/\ openStreams' = openStreams \cup {stream'}
              /\ stream' \notin openStreams)
       /\ ev'.op = "denied" => UNCHANGED <<openStreams, stream, source>>]_vars

C29_Witness ==
    /\ ev.op = "select"
    /\ isLive
    /\ stream # 0
    /\ stream \notin openStreams
    /\ source.of = stream
    /\ ~source.connected
    /\ calls = <<"select">>

(* C23: no hook is called on an instance that does not define it, and the  *)
(* transition to or from such a module still completes: after showIndex    *)
(* the target is the current index, the current item and                   *)
(* window.currentAnimation and the only visible view; a tick whose target  *)
(* has no updateFrequencies delivers nothing and leaves the loop pending.  *)
IsPlain(i) == At(loaded, i).instance = "PlainAnimation"

C23_MissingHookTolerated ==
    /\ \A i \in DOMAIN frameId : IsPlain(i) => (frameId[i] = 0 /\ lifecycle[i] = "none")
    /\ (ev.shown /\ ev.res = <<>>) =>
          (/\ currentIndex = ShownTarget
           /\ currentItem = ShownTarget
           /\ windowCurrentAnimation = ShownTarget
           /\ \A i \in DOMAIN display : display[i] <=> (i = ShownTarget)
           /\ \A i \in DOMAIN frameId : Running(i) => i = ShownTarget)
    /\ (ev.op = "tick" /\ ev.who # NoItem /\ IsPlain(ev.who)) =>
          (/\ ev.res = <<>>
           /\ \E cb \in rafQueue : cb.kind = "loop" /\ cb.id = rafId)

C23_Witness ==
    /\ ev.op = "timer"
    /\ IsPlain(ev.arg[1])
    /\ currentIndex # ev.arg[1]
    /\ ~IsPlain(currentIndex)
    /\ Running(currentIndex)
    /\ windowCurrentAnimation = currentIndex

(* C22: after stop() of a module, and until its next start(), the module   *)
(* has nothing of its own registered: no frame callback in the browser's   *)
(* queue and no listener on its canvas; and however often it is started    *)
(* and stopped, it never has more than one listener registered.            *)
Listeners(i) == IF "listeners" \in DOMAIN fields[i] THEN fields[i].listeners ELSE 0

CallbacksOf(i) == { cb \in rafQueue : cb.who = i }

C22_StopDetachesEverything ==
    \A i \in DOMAIN lifecycle :
       /\ lifecycle[i] = "stop" => (Listeners(i) = 0 /\ CallbacksOf(i) = {})
       /\ Listeners(i) <= 1

(* C24: a SynthwaveRunAnimation never holds more entities than the         *)
(* maxNames of its manifest entry (maxNames of the entry itself, else of   *)
(* its settings block, when that is a positive number; 3 otherwise),       *)
(* after any frames and any band values.                                   *)
ConfiguredMaxNames(config) ==
    IF config.maxNames > 0 THEN config.maxNames
    ELSE IF config.settings.present /\ config.settings.maxNames > 0
         THEN config.settings.maxNames
    ELSE DefaultMaxNames

IsSynth(i) == At(loaded, i).instance = "SynthwaveRunAnimation"

NoActiveModule ==
    \/ phase \in {"loading", "failed"}
    \/ phase = "running" /\ ~HasInstance(loaded, currentItem)

LoopPending == { cb \in rafQueue : cb.kind = "loop" }

C31_IdleTickIsNoOp ==
    (ev.op = "tick" /\ NoActiveModule) =>
       (/\ ev.res = <<>>
        /\ ev.who = NoItem
        /\ \E cb \in LoopPending : cb.id = rafId /\ LoopPending = {cb})

C31_Witness ==
    /\ ev.op = "tick"
    /\ phase = "running"
    /\ ValidIndex(loaded, currentItem)
    /\ ~HasInstance(loaded, currentItem)
    /\ display[currentItem]
    /\ LoopPending # {}

(* C32: when the test mode checkbox is checked while an enableLiveInput    *)
(* call is waiting for getUserMedia, and that call then resolves with a    *)
(* stream, the system stays in synthetic mode: test mode is still on, the  *)
(* checkbox is still checked and the next tick delivers synthetic samples. *)
C32_LateGrantKeepsSynthetic ==
    [][(ev.op = "testmode" /\ checked /\ calls # <<>> /\ ev'.op = "granted")
          => (isTestMode' /\ checked' /\ SyntheticMode')]_vars

(* C33: frameId of an instance is non-null exactly when one draw callback  *)
(* of the instance is pending; start() leaves one draw callback pending,   *)
(* on a fresh instance and on one that has been started and stopped        *)
(* before; and a draw callback that has run has requested the next frame.  *)
DrawsPending(i) == Cardinality(PendingDraws(rafQueue, i))

C33_FrameIdIffDrawPending ==
    /\ \A i \in DOMAIN frameId :
          DrawsPending(i) = (IF frameId[i] # 0 THEN 1 ELSE 0)
    /\ ev.op \in {"start", "draw"} => DrawsPending(ev.who) = 1

(* C34: with only timer firings, and every pending timer firing            *)
(* eventually, every loaded module is the active module again and again    *)
(* (current index, window.currentAnimation, visible and running), and the  *)
(* current index starts at 0 and only ever moves to the next index,        *)
(* wrapping from N-1 to 0.                                                 *)
Active(i) ==
    /\ phase = "running"
    /\ currentIndex = i
    /\ windowCurrentAnimation = i
    /\ display[i]
    /\ Running(i)

C34_EveryModuleInTurn ==
    /\ \A i \in 0 .. (MaxModules - 1) :
          []<>((phase = "running" /\ HasInstance(loaded, i)) => Active(i))
    /\ [][/\ (phase # "running" /\ phase' = "running") => currentIndex' = 0
          /\ (phase = "running" /\ currentIndex' # currentIndex) =>
                currentIndex' = (currentIndex + 1) % Len(loaded)]_vars

C34_Witness ==
    /\ ev.op = "timer"
    /\ Len(loaded) = MaxModules
    /\ ev.arg = <<Len(loaded) - 1, 1>>
    /\ Active(0)
    /\ \A i \in Indices(loaded) : HasInstance(loaded, i)

(* C35: the audio context, the analyser and the data buffer are built at   *)
(* most once: by the first enableLiveInput call, and never again by a      *)
(* later call, whether it succeeds, fails or switches the device.          *)
C35_PipelineBuiltOnce ==
    pipelines = (IF audioCtx = "none" THEN 0 ELSE 1)

C35_Witness ==
    /\ ev.op = "granted"
    /\ ev.prev = "select"
    /\ pipelines = 1
    /\ LivePipeline
    /\ calls = <<>>

(* C36: from the call of startLoop on, exactly one callback of the         *)
(* Distribution Loop is pending in every state, the one whose handle rafId *)
(* holds: pause, rotation, a switch of the source and the modules' own     *)
(* frames leave it pending, and every tick has requested the next one.     *)
C36_OneLoopCallback ==
    phase # "boot" =>
       (/\ Cardinality(LoopPending) = 1
        /\ \A cb \in LoopPending : cb.id = rafId /\ rafId # 0)

C36_Witness ==
    /\ ev.op = "tick"
    /\ phase = "running"
    /\ paused
    /\ currentIndex # 0
    /\ Cardinality(LoopPending) = 1

(* C37: the device dropdown is filled and shown only by the click listener *)
(* whose enableLiveInput call succeeded: while no call has succeeded       *)
(* (isLive is still false) the dropdown has no option and is hidden, and   *)
(* only the step that grants the second click listener's request changes   *)
(* the dropdown.                                                           *)
C37_SelectorAfterGrant ==
    /\ [](~isLive => (options = 0 /\ ~selectShown))
    /\ [][(options' # options \/ selectShown' # selectShown)
            => (ev'.op = "granted" /\ ev'.prev = "micB" /\ isLive')]_vars

C37_Witness ==
    /\ ev.op = "granted"
    /\ ev.prev = "micB"
    /\ isLive
    /\ selectShown
    /\ options > 1

====
